---- MODULE Spec2Model ----
(***************************************************************************)
(* llamabot: the QueryBot retrieval-augmented answer flow                  *)
(* (src/llamabot/bot/querybot.py) and the scoped PromptRecorder            *)
(* (src/llamabot/recorder.py), as a state machine.                         *)
(*                                                                         *)
(* A logical execution context (a thread, or a task with its own           *)
(* contextvars.Context) runs one operation at a time.  QueryBot.__call__   *)
(* blocks in two collaborators, index.query (line 121) and self.chat       *)
(* (line 141); it is modelled as two steps, one ending at each of them, so *)
(* that the other context can run while a call waits for the chat model.   *)
(* An exception raised by an operation stays pending in its context until  *)
(* it has unwound the open `with PromptRecorder()` blocks or is caught.    *)
(***************************************************************************)
EXTENDS Integers, Sequences, FiniteSets, TLC

\* ---------------------------------------------------------------- bounds
\* successful answer calls, over all bots
MaxAnswers == 2
\* open `with` blocks per context
MaxDepth == 2
\* chunks held by one index
MaxIndexLen == 2

\* ------------------------------------------------------- inputs, by name
Bots == {"b1", "b2"}
Recorders == {"r1", "r2"}
Contexts == {"cA", "cB"}
Queries == {"q1", "q2"}
Answers == {"a1", "a2"}
TopKs == {1, 2}
Docs == {"d1", "d2"}
SystemMessages == {"You are a helpful librarian"}
SavedIndexPaths == {"index.json"}
\* The file names save is called with.
SaveNames ==
    {<<"index">>, <<"index", "bin">>, <<"index", "json">>, <<"index", "JSON">>,
     <<"index", "tar", "gz">>, <<"", "json">>, <<"">>}
None == "None"
\* None, where the other values are lists (self.index, doc_paths).
NoneList == <<None>>

\* The persisted index a saved_index_path names (GPTSimpleVectorIndex.load_from_disk).
load_from_disk(path) == <<"s1">>

\* llamabot.doc_processor: the ordered chunks of a document.
split_document(d) == IF d = "d1" THEN <<"c1", "c2">> ELSE <<"c3">>

\* Every text a retrieved node can hold.
ChunkTexts ==
    UNION ({{load_from_disk(p)[i] : i \in 1..Len(load_from_disk(p))} : p \in SavedIndexPaths}
           \cup {{split_document(d)[i] : i \in 1..Len(split_document(d))} : d \in Docs})

\* ------------------------------------------------------------- messages
SystemMessage(content) == [role |-> "system", content |-> content]
HumanMessage(content) == [role |-> "human", content |-> content]
AIMessage(content) == [role |-> "assistant", content |-> content]

DoNotHallucinate == "Do not hallucinate content. If you cannot answer something, respond by saying that you don't know."
ContextMarker == "Here is the context you will be working with:"
QueryMarker == "Based on this context, answer the following query:"

VARIABLES
    exists,                 \* the QueryBot objects constructed so far
    system_message,         \* self.system_message
    index,                  \* self.index: None, or the chunks in insertion order
    doc_paths,              \* self.doc_paths
    saved_index_path,       \* the saved_index_path argument of __init__ (not kept by the object)
    chat_history,           \* self.chat_history
    source_nodes,           \* self.source_nodes: query -> retrieved nodes
    returned,               \* per bot: the __call__s that reached `return response`
    saved_files,            \* the file system: path -> the index save_to_disk wrote there
    prompts_and_responses,  \* PromptRecorder.prompts_and_responses
    prompt_recorder_var,    \* the ContextVar of recorder.py, one value per context
    scopes,                 \* per context: the recorders of the open `with` blocks, outermost first
    pc,                     \* per context: "idle", or "chat" while __call__ waits at line 141
    frame,                  \* per context: the locals of the __call__ in progress
    exc,                    \* per context: the exception propagating, or None
    last                    \* per context: the operation that ended last, and how

vars == <<exists, system_message, index, doc_paths, saved_index_path, chat_history,
          source_nodes, returned, saved_files, prompts_and_responses, prompt_recorder_var, scopes, pc,
          frame, exc, last>>

botVars == <<exists, system_message, index, doc_paths, saved_index_path, chat_history,
             source_nodes, returned>>
recVars == <<prompts_and_responses, prompt_recorder_var, scopes>>

\* ------------------------------------------------------------- helpers
Min(a, b) == IF a < b THEN a ELSE b
Range(s) == {s[i] : i \in 1..Len(s)}
IsPrefix(s, t) == Len(s) <= Len(t) /\ SubSeq(t, 1, Len(s)) = s
Top(s) == s[Len(s)]

\* A Python dict with string keys: a function on the keys it holds.
EmptyDict == [key \in {} |-> <<>>]
DictSet(d, key, value) ==
    [x \in DOMAIN d \cup {key} |-> IF x = key THEN value ELSE d[x]]
Pop(s) == SubSeq(s, 1, Len(s) - 1)

NoFrame == [bot |-> None, query |-> None, nodes |-> <<>>, faux |-> <<>>]
Idle(c) == pc[c] = "idle" /\ exc[c] = None

\* A bot is used by one caller at a time (no locking exists in QueryBot; the
\* design assumes single-caller-at-a-time use of an instance).
Busy(b) == \E c \in Contexts : pc[c] = "chat" /\ frame[c].bot = b

\* How an operation ended: what `last` holds.
Outcome(op, target, status, nquery, nchat) ==
    [op |-> op, target |-> target, status |-> status, nquery |-> nquery, nchat |-> nchat]
NoOutcome == Outcome(None, None, None, 0, 0)

\* The index collaborator: the top-k nodes of a query, in the index's own
\* relevance order.  Any k distinct entries of the index, in any order
\* (all of them when the index holds fewer than k).
Retrievals(idx, k) ==
    LET n == Min(k, Len(idx))
        picks == {p \in [1..n -> 1..Len(idx)] : \A i, j \in 1..n : p[i] = p[j] => i = j}
    IN  {[i \in 1..n |-> [text |-> idx[p[i]]]] : p \in picks}

\* ------------------------------------------------------------ recorder
\* Mutant: the newest entry is put first.
log_newest_first(r, prompt, response) ==
    [prompts_and_responses EXCEPT
        ![r] = <<[prompt |-> prompt, response |-> response]>> \o @]

\* PromptRecorder.log: one entry appended to the recorder's list.
log(r, prompt, response) ==
    [prompts_and_responses EXCEPT
        ![r] = Append(@, [prompt |-> prompt, response |-> response])]

\* Mutant: the recorder is a module global that scope exit does not reach.
autorecord_global(c, prompt, response) ==
    [prompts_and_responses EXCEPT
        !["r1"] = Append(@, [prompt |-> prompt, response |-> response])]

\* autorecord, called in context c: the context's current recorder, if any, logs.
autorecord(c, prompt, response) ==
    LET prompt_recorder == prompt_recorder_var[c]
    IN  IF prompt_recorder # None
        THEN log(prompt_recorder, prompt, response)
        ELSE prompts_and_responses

\* Mutant: an occupied slot is kept, the first recorder entered wins.
PromptRecorder_enter_keeps_outer(c, r) ==
    /\ Idle(c)
    /\ Len(scopes[c]) < MaxDepth
    /\ prompt_recorder_var' =
           [prompt_recorder_var EXCEPT ![c] = IF @ = None THEN r ELSE @]
    /\ scopes' = [scopes EXCEPT ![c] = Append(@, r)]
    /\ last' = [last EXCEPT ![c] = Outcome("enter", r, "ok", 0, 0)]
    /\ UNCHANGED <<botVars, saved_files, prompts_and_responses, pc, frame, exc>>

\* Mutant: the slot is a module global, one value for every context.
PromptRecorder_enter_process_wide(c, r) ==
    /\ Idle(c)
    /\ Len(scopes[c]) < MaxDepth
    /\ prompt_recorder_var' = [x \in Contexts |-> r]
    /\ scopes' = [scopes EXCEPT ![c] = Append(@, r)]
    /\ last' = [last EXCEPT ![c] = Outcome("enter", r, "ok", 0, 0)]
    /\ UNCHANGED <<botVars, saved_files, prompts_and_responses, pc, frame, exc>>

\* PromptRecorder.__enter__ (`with r:` in context c).
PromptRecorder_enter(c, r) ==
    /\ Idle(c)
    /\ Len(scopes[c]) < MaxDepth
    /\ prompt_recorder_var' = [prompt_recorder_var EXCEPT ![c] = r]
    /\ scopes' = [scopes EXCEPT ![c] = Append(@, r)]
    /\ last' = [last EXCEPT ![c] = Outcome("enter", r, "ok", 0, 0)]
    /\ UNCHANGED <<botVars, saved_files, prompts_and_responses, pc, frame, exc>>

\* Mutant: the slot is cleared on a normal exit only.
PromptRecorder_exit_clean_only(c) ==
    /\ pc[c] = "idle"
    /\ scopes[c] # <<>>
    /\ prompt_recorder_var' =
           [prompt_recorder_var EXCEPT ![c] = IF exc[c] = None THEN None ELSE @]
    /\ scopes' = [scopes EXCEPT ![c] = Pop(@)]
    /\ last' = [last EXCEPT ![c] = Outcome("exit", Top(scopes[c]), exc[c], 0, 0)]
    /\ UNCHANGED <<botVars, saved_files, prompts_and_responses, pc, frame, exc>>

\* Mutant: the slot is reset to the recorder of the enclosing block.
PromptRecorder_exit_restores_outer(c) ==
    /\ pc[c] = "idle"
    /\ scopes[c] # <<>>
    /\ prompt_recorder_var' =
           [prompt_recorder_var EXCEPT
               ![c] = IF Pop(scopes[c]) = <<>> THEN None ELSE Top(Pop(scopes[c]))]
    /\ scopes' = [scopes EXCEPT ![c] = Pop(@)]
    /\ last' = [last EXCEPT ![c] = Outcome("exit", Top(scopes[c]), exc[c], 0, 0)]
    /\ UNCHANGED <<botVars, saved_files, prompts_and_responses, pc, frame, exc>>

\* PromptRecorder.__exit__: the innermost open block of context c ends, either
\* normally or because an exception is unwinding through it.  __exit__ returns
\* None, so the exception goes on propagating.
PromptRecorder_exit(c) ==
    /\ pc[c] = "idle"
    /\ scopes[c] # <<>>
    /\ prompt_recorder_var' = [prompt_recorder_var EXCEPT ![c] = None]
    /\ scopes' = [scopes EXCEPT ![c] = Pop(@)]
    /\ last' = [last EXCEPT ![c] = Outcome("exit", Top(scopes[c]), exc[c], 0, 0)]
    /\ UNCHANGED <<botVars, saved_files, prompts_and_responses, pc, frame, exc>>

\* The caller's `except`: a propagating exception is caught.
caller_catches(c) ==
    /\ pc[c] = "idle"
    /\ exc[c] # None
    /\ exc' = [exc EXCEPT ![c] = None]
    /\ UNCHANGED <<botVars, saved_files, recVars, pc, frame, last>>

\* ------------------------------------------------------------ QueryBot
\* The doc_paths argument of __init__: None, or a list of documents.
DocPathLists == {<<d>> : d \in Docs}

RECURSIVE all_chunks(_)
\* The chunks of a list of documents, in the order the loops of
\* insert_documents_into_index reach them.
all_chunks(paths) ==
    IF paths = <<>> THEN <<>>
    ELSE split_document(Head(paths)) \o all_chunks(Tail(paths))
\* Mutant: the chunks of a document are inserted as one batch, all or none.
insert_documents_all_or_none(paths, idx, good) ==
    LET chunks == all_chunks(paths)
    IN  IF idx = NoneList
        THEN [index |-> NoneList,
              raised |-> IF chunks = <<>> THEN None ELSE "AttributeError"]
        ELSE IF good < Len(chunks)
        THEN [index |-> idx, raised |-> "UpstreamError"]
        ELSE [index |-> idx \o chunks, raised |-> None]

\* insert_documents_into_index: index.insert(doc), chunk after chunk.  The
\* collaborator may fail at any chunk: `good` chunks go in before it does.
\* With index None the first index.insert is an attribute access on None.
insert_documents_into_index(paths, idx, good) ==
    LET chunks == all_chunks(paths)
    IN  IF idx = NoneList
        THEN [index |-> NoneList,
              raised |-> IF chunks = <<>> THEN None ELSE "AttributeError"]
        ELSE IF good < Len(chunks)
        THEN [index |-> idx \o SubSeq(chunks, 1, good), raised |-> "UpstreamError"]
        ELSE [index |-> idx \o chunks, raised |-> None]

\* __init__, lines 64-81: the index the constructor ends with.
initial_index(paths, saved, good) ==
    LET loaded == IF saved # None THEN load_from_disk(saved) ELSE <<>>
    IN  IF paths # NoneList
        THEN insert_documents_into_index(paths, loaded, good)
        ELSE [index |-> NoneList, raised |-> None]

\* __init__, lines 88-95.
initial_chat_history(sm) == <<SystemMessage(sm), SystemMessage(DoNotHallucinate)>>

\* QueryBot(system_message, doc_paths=paths, saved_index_path=saved), in context c.
QueryBot_init(c, b, sm, paths, saved, good) ==
    /\ Idle(c)
    /\ b \notin exists
    /\ Len(all_chunks(IF paths = NoneList THEN <<>> ELSE paths))
         + (IF saved = None THEN 0 ELSE Len(load_from_disk(saved))) <= MaxIndexLen
    /\ LET made == initial_index(paths, saved, good)
       IN  IF made.raised # None
           THEN /\ exc' = [exc EXCEPT ![c] = made.raised]
                /\ last' = [last EXCEPT ![c] = Outcome("init", b, made.raised, 0, 0)]
                /\ UNCHANGED <<botVars, saved_files>>
           ELSE /\ exists' = exists \cup {b}
                /\ system_message' = [system_message EXCEPT ![b] = sm]
                /\ index' = [index EXCEPT ![b] = made.index]
                /\ doc_paths' = [doc_paths EXCEPT ![b] = paths]
                /\ saved_index_path' = [saved_index_path EXCEPT ![b] = saved]
                /\ chat_history' = [chat_history EXCEPT ![b] = initial_chat_history(sm)]
                /\ source_nodes' = [source_nodes EXCEPT ![b] = EmptyDict]
                /\ last' = [last EXCEPT ![c] = Outcome("init", b, "ok", 0, 0)]
                /\ UNCHANGED <<exc, returned, saved_files>>
    /\ UNCHANGED <<recVars, pc, frame>>

\* QueryBot.insert(file), in context c.
QueryBot_insert(c, b, file, good) ==
    /\ Idle(c)
    /\ b \in exists
    /\ ~Busy(b)
    /\ index[b] # NoneList
          => Len(index[b]) + Min(good, Len(split_document(file))) <= MaxIndexLen
    /\ LET done == insert_documents_into_index(<<file>>, index[b], good)
       IN  /\ index' = [index EXCEPT ![b] = done.index]
           /\ exc' = [exc EXCEPT ![c] = done.raised]
           /\ last' = [last EXCEPT ![c] =
                  Outcome("insert", b, IF done.raised = None THEN "ok" ELSE done.raised, 0, 0)]
    /\ UNCHANGED <<saved_files, exists, system_message, doc_paths, saved_index_path, chat_history,
                   source_nodes, returned, recVars, pc, frame>>

\* pathlib.PurePath: a path is the list of the dot-separated parts of its
\* final component ("index.tar.gz" is <<"index", "tar", "gz">>, the hidden
\* file ".json" is <<"", "json">>, the empty path is <<"">>); the directory
\* part plays no role in save and is left out.  A suffix is written without
\* its dot, "" is no suffix.
suffix(path) ==
    IF /\ Len(path) >= 2
       /\ path[Len(path)] # ""
       /\ ~(Len(path) = 2 /\ path[1] = "")
    THEN path[Len(path)]
    ELSE ""

\* PurePath.stem: the final component without its suffix.
stem(path) == IF suffix(path) = "" THEN path ELSE SubSeq(path, 1, Len(path) - 1)

\* Mutant: the suffix is appended to the name as a string (path + ".json").
with_suffix_appended(path, new) == Append(path, new)

\* PurePath.with_suffix, for a path with a name.
with_suffix(path, new) ==
    IF suffix(path) = "" THEN Append(path, new) ELSE [path EXCEPT ![Len(path)] = new]

\* save, lines 160-162: the path save_to_disk is given.
json_path(path) == IF suffix(path) # "json" THEN with_suffix(path, "json") ELSE path

\* QueryBot.save(path), in context c; `written` is whether save_to_disk
\* could write the file.
QueryBot_save(c, b, path, written) ==
    /\ Idle(c)
    /\ b \in exists
    /\ ~Busy(b)
    /\ LET raised == IF suffix(path) # "json" /\ path = <<"">> THEN "ValueError"
                     ELSE IF index[b] = NoneList THEN "AttributeError"
                     ELSE IF ~written THEN "PersistenceError"
                     ELSE None
       IN  /\ saved_files' = IF raised = None
                                THEN DictSet(saved_files, json_path(path), index[b])
                                ELSE saved_files
           /\ exc' = [exc EXCEPT ![c] = raised]
           /\ last' = [last EXCEPT ![c] =
                  Outcome("save", b, IF raised = None THEN "ok" ELSE raised, 0, 0)]
    /\ UNCHANGED <<botVars, recVars, pc, frame>>

\* Mutant: the chunks are put in most-relevant-last order.
faux_chat_history_reversed(sm, source_texts, query) ==
    <<SystemMessage(sm), SystemMessage(ContextMarker)>>
        \o [i \in 1..Len(source_texts) |->
               SystemMessage(source_texts[Len(source_texts) + 1 - i])]
        \o <<SystemMessage(QueryMarker), HumanMessage(query)>>

\* __call__, lines 127-138: the transient message sequence.
faux_chat_history(sm, source_texts, query) ==
    <<SystemMessage(sm), SystemMessage(ContextMarker)>>
        \o [i \in 1..Len(source_texts) |-> SystemMessage(source_texts[i])]
        \o <<SystemMessage(QueryMarker), HumanMessage(query)>>

\* Mutant: the tail of the transient sequence is appended with the answer.
record_exchange_with_marker(history, query, response) ==
    history \o <<SystemMessage(QueryMarker), HumanMessage(query), response>>

\* Mutant: the memory is a window, the oldest turn is rotated out.
record_exchange_rotating(history, query, response) ==
    IF Len(history) >= 4
    THEN SubSeq(history, 1, 2) \o SubSeq(history, 5, Len(history))
             \o <<HumanMessage(query), response>>
    ELSE history \o <<HumanMessage(query), response>>

\* __call__, lines 144-145: the exchange goes into the bot's memory.
record_exchange(history, query, response) ==
    Append(Append(history, HumanMessage(query)), response)

\* Mutant: the first entry of a query is kept.
record_source_nodes_keep_first(record, query, nodes) ==
    IF query \in DOMAIN record THEN record ELSE DictSet(record, query, nodes)

\* __call__, line 148.
record_source_nodes(record, query, nodes) == DictSet(record, query, nodes)

RECURSIVE SumOver(_, _)
SumOver(f, S) ==
    IF S = {} THEN 0
    ELSE LET x == CHOOSE y \in S : TRUE IN f[x] + SumOver(f, S \ {x})

\* The successful answer calls so far.
Answered == SumOver(returned, Bots)

CanCall(c, b) ==
    /\ Idle(c)
    /\ b \in exists
    /\ ~Busy(b)
    /\ Answered < MaxAnswers

\* Mutant: the check of lines 115-118 is missing, index.query is tried on None.
QueryBot_call_no_index_unchecked(c, b, query, k) ==
    /\ CanCall(c, b)
    /\ index[b] = NoneList
    /\ exc' = [exc EXCEPT ![c] = "AttributeError"]
    /\ last' = [last EXCEPT ![c] = Outcome("answer", b, "AttributeError", 1, 0)]
    /\ UNCHANGED <<botVars, saved_files, recVars, pc, frame>>

\* __call__, lines 115-118: no index, ValueError.
QueryBot_call_no_index(c, b, query, k) ==
    /\ CanCall(c, b)
    /\ index[b] = NoneList
    /\ exc' = [exc EXCEPT ![c] = "ValueError"]
    /\ last' = [last EXCEPT ![c] = Outcome("answer", b, "ValueError", 0, 0)]
    /\ UNCHANGED <<botVars, saved_files, recVars, pc, frame>>

\* __call__, line 121: index.query raises.
QueryBot_call_query_fails(c, b, query, k) ==
    /\ CanCall(c, b)
    /\ index[b] # NoneList
    /\ exc' = [exc EXCEPT ![c] = "UpstreamError"]
    /\ last' = [last EXCEPT ![c] = Outcome("answer", b, "UpstreamError", 1, 0)]
    /\ UNCHANGED <<botVars, saved_files, recVars, pc, frame>>

\* Mutant: Step 4 runs before Step 3, the query is in the history before the
\* chat model has answered.
QueryBot_call_query_early_append(c, b, query, k, nodes) ==
    /\ CanCall(c, b)
    /\ index[b] # NoneList
    /\ nodes \in Retrievals(index[b], k)
    /\ frame' = [frame EXCEPT ![c] =
           [bot |-> b, query |-> query, nodes |-> nodes,
            faux |-> <<SystemMessage(system_message[b]), HumanMessage(query)>>]]
    /\ pc' = [pc EXCEPT ![c] = "chat"]
    /\ chat_history' = [chat_history EXCEPT ![b] = Append(@, HumanMessage(query))]
    /\ UNCHANGED <<saved_files, exists, system_message, index, doc_paths, saved_index_path,
                   source_nodes, returned, recVars, exc, last>>

\* __call__, lines 119-141: index.query returns `nodes`, the transient
\* sequence is built and handed to the chat model; the call waits for it.
QueryBot_call_query(c, b, query, k, nodes) ==
    /\ CanCall(c, b)
    /\ index[b] # NoneList
    /\ nodes \in Retrievals(index[b], k)
    /\ LET source_texts == [i \in 1..Len(nodes) |-> nodes[i].text]
       IN  frame' = [frame EXCEPT ![c] =
               [bot |-> b, query |-> query, nodes |-> nodes,
                faux |-> faux_chat_history(system_message[b], source_texts, query)]]
    /\ pc' = [pc EXCEPT ![c] = "chat"]
    /\ UNCHANGED <<saved_files, exists, system_message, index, doc_paths, saved_index_path,
                   chat_history, source_nodes, returned, recVars, exc, last>>

\* Mutant: a failed self.chat is tried a second time before the call gives up.
QueryBot_call_chat_fails_retried(c, how) ==
    /\ pc[c] = "chat"
    /\ pc' = [pc EXCEPT ![c] = "idle"]
    /\ frame' = [frame EXCEPT ![c] = NoFrame]
    /\ exc' = [exc EXCEPT ![c] = how]
    /\ last' = [last EXCEPT ![c] =
           Outcome("answer", frame[c].bot, how, 1, 2)]
    /\ UNCHANGED <<botVars, saved_files, recVars>>

\* __call__, line 141: self.chat raises, or the caller aborts the call while
\* the answer streams (KeyboardInterrupt, task cancellation).
QueryBot_call_chat_fails(c, how) ==
    /\ pc[c] = "chat"
    /\ pc' = [pc EXCEPT ![c] = "idle"]
    /\ frame' = [frame EXCEPT ![c] = NoFrame]
    /\ exc' = [exc EXCEPT ![c] = how]
    /\ last' = [last EXCEPT ![c] =
           Outcome("answer", frame[c].bot, how, 1, 1)]
    /\ UNCHANGED <<botVars, saved_files, recVars>>

\* Mutant: the bot learns from its answers, the answer is inserted into the index.
QueryBot_call_finish_indexes_answer(c, answer) ==
    /\ pc[c] = "chat"
    /\ LET b == frame[c].bot
           query == frame[c].query
           response == AIMessage(answer)
       IN  /\ chat_history' = [chat_history EXCEPT ![b] = record_exchange(@, query, response)]
           /\ source_nodes' = [source_nodes EXCEPT ![b] =
                  record_source_nodes(@, query, frame[c].nodes)]
           /\ index' = [index EXCEPT ![b] = Append(@, answer)]
           /\ prompts_and_responses' = autorecord(c, query, response.content)
           /\ returned' = [returned EXCEPT ![b] = @ + 1]
           /\ last' = [last EXCEPT ![c] = Outcome("answer", b, "ok", 1, 1)]
    /\ pc' = [pc EXCEPT ![c] = "idle"]
    /\ frame' = [frame EXCEPT ![c] = NoFrame]
    /\ UNCHANGED <<saved_files, exists, system_message, doc_paths, saved_index_path,
                   prompt_recorder_var, scopes, exc>>

\* __call__, lines 141-153: self.chat returns the full answer; history,
\* source_nodes and the current recorder are updated and the answer returned.
QueryBot_call_finish(c, answer) ==
    /\ pc[c] = "chat"
    /\ LET b == frame[c].bot
           query == frame[c].query
           response == AIMessage(answer)
       IN  /\ chat_history' = [chat_history EXCEPT ![b] = record_exchange(@, query, response)]
           /\ source_nodes' = [source_nodes EXCEPT ![b] =
                  record_source_nodes(@, query, frame[c].nodes)]
           /\ prompts_and_responses' = autorecord(c, query, response.content)
           /\ returned' = [returned EXCEPT ![b] = @ + 1]
           /\ last' = [last EXCEPT ![c] = Outcome("answer", b, "ok", 1, 1)]
    /\ pc' = [pc EXCEPT ![c] = "idle"]
    /\ frame' = [frame EXCEPT ![c] = NoFrame]
    /\ UNCHANGED <<saved_files, exists, system_message, index, doc_paths, saved_index_path,
                   prompt_recorder_var, scopes, exc>>

\* -------------------------------------------------------- specification
Init ==
    /\ exists = {}
    /\ system_message = [b \in Bots |-> None]
    /\ index = [b \in Bots |-> NoneList]
    /\ doc_paths = [b \in Bots |-> NoneList]
    /\ saved_index_path = [b \in Bots |-> None]
    /\ chat_history = [b \in Bots |-> <<>>]
    /\ source_nodes = [b \in Bots |-> EmptyDict]
    /\ returned = [b \in Bots |-> 0]
    /\ saved_files = EmptyDict
    /\ prompts_and_responses = [r \in Recorders |-> <<>>]
    /\ prompt_recorder_var = [c \in Contexts |-> None]
    /\ scopes = [c \in Contexts |-> <<>>]
    /\ pc = [c \in Contexts |-> "idle"]
    /\ frame = [c \in Contexts |-> NoFrame]
    /\ exc = [c \in Contexts |-> None]
    /\ last = [c \in Contexts |-> NoOutcome]

\* A world: the callers, objects and inputs a specification lets the
\* environment use.
World(contexts, bots, recorders, queries, answers, topks, paths, saved, files) ==
    [contexts |-> contexts, bots |-> bots, recorders |-> recorders,
     queries |-> queries, answers |-> answers, topks |-> topks,
     paths |-> paths, saved |-> saved, files |-> files]

Construct(W) ==
    \E c \in W.contexts, b \in W.bots, sm \in SystemMessages,
       paths \in W.paths, saved \in W.saved :
        \E good \in 0..(IF paths = NoneList THEN 0 ELSE Len(all_chunks(paths))) :
            QueryBot_init(c, b, sm, paths, saved, good)
Insert(W) ==
    \E c \in W.contexts, b \in W.bots, file \in W.files :
        \E good \in 0..Len(split_document(file)) : QueryBot_insert(c, b, file, good)
CallNoIndex(W) ==
    \E c \in W.contexts, b \in W.bots, q \in W.queries, k \in W.topks :
        QueryBot_call_no_index(c, b, q, k)
CallQueryFails(W) ==
    \E c \in W.contexts, b \in W.bots, q \in W.queries, k \in W.topks :
        QueryBot_call_query_fails(c, b, q, k)
CallQuery(W) ==
    \E c \in W.contexts, b \in W.bots \cap exists, q \in W.queries, k \in W.topks :
        /\ index[b] # NoneList
        /\ \E nodes \in Retrievals(index[b], k) : QueryBot_call_query(c, b, q, k, nodes)
CallChatFails(W) ==
    \E c \in W.contexts, how \in {"UpstreamError", "Aborted"} : QueryBot_call_chat_fails(c, how)
CallFinish(W) ==
    \E c \in W.contexts, answer \in W.answers : QueryBot_call_finish(c, answer)
Enter(W) == \E c \in W.contexts, r \in W.recorders : PromptRecorder_enter(c, r)
Exit(W) == \E c \in W.contexts : PromptRecorder_exit(c)
Catch(W) == \E c \in W.contexts : caller_catches(c)

Save(W) ==
    \E c \in W.contexts, b \in W.bots, path \in SaveNames, written \in BOOLEAN :
        QueryBot_save(c, b, path, written)

\* One caller and one bot, every way of constructing it, every input, and
\* no recorder.
BotWorld ==
    World({"cA"}, {"b1"}, {}, Queries, Answers, TopKs,
          DocPathLists \cup {NoneList}, SavedIndexPaths \cup {None}, Docs)

Next ==
    \/ Construct(BotWorld) \/ Insert(BotWorld)
    \/ CallNoIndex(BotWorld) \/ CallQueryFails(BotWorld) \/ CallQuery(BotWorld)
    \/ CallChatFails(BotWorld) \/ CallFinish(BotWorld)
    \/ Catch(BotWorld)

Spec == Init /\ [][Next]_vars

\* One caller, two bots built from a one-chunk document or from nothing,
\* and two recorders whose scopes nest.
RecorderWorld ==
    World({"cA"}, Bots, Recorders, {"q1"}, Answers, {1},
          {<<"d2">>, NoneList}, {None}, {})

NextRecorder ==
    \/ Construct(RecorderWorld)
    \/ CallNoIndex(RecorderWorld) \/ CallQueryFails(RecorderWorld) \/ CallQuery(RecorderWorld)
    \/ CallChatFails(RecorderWorld) \/ CallFinish(RecorderWorld)
    \/ Enter(RecorderWorld) \/ Exit(RecorderWorld) \/ Catch(RecorderWorld)

SpecRecorder == Init /\ [][NextRecorder]_vars

\* One caller and one bot that is built, grows by insertion and is saved
\* under every kind of file name.
SaveWorld ==
    World({"cA"}, {"b1"}, {}, {}, {}, {}, {<<"d2">>, NoneList}, {None}, {"d2"})

NextSave ==
    \/ Construct(SaveWorld) \/ Insert(SaveWorld) \/ Save(SaveWorld) \/ Catch(SaveWorld)

SpecSave == Init /\ [][NextSave]_vars

\* Two callers, each in its own contextvars.Context, share one bot and two
\* recorders.
ContextsWorld ==
    World(Contexts, {"b1"}, Recorders, {"q1"}, {"a1"}, {1}, {<<"d2">>}, {None}, {})

NextContexts ==
    \/ Construct(ContextsWorld) \/ CallQuery(ContextsWorld)
    \/ CallChatFails(ContextsWorld) \/ CallFinish(ContextsWorld)
    \/ Enter(ContextsWorld) \/ Exit(ContextsWorld) \/ Catch(ContextsWorld)

SpecContexts == Init /\ [][NextContexts]_vars

\* ---------------------------------------------------------------- claims
\* The step in which a __call__ of context c returns its answer.
Returns(c) == pc[c] = "chat" /\ pc'[c] = "idle" /\ exc'[c] = None

\* The messages a transient context block can hold: the two markers and one
\* message per chunk.
ContextBlock ==
    {SystemMessage(ContextMarker), SystemMessage(QueryMarker)}
        \cup {SystemMessage(t) : t \in ChunkTexts}

NoContextInHistory ==
    \A b \in Bots : \A i \in 1..Len(chat_history[b]) : chat_history[b][i] \notin ContextBlock

GrowsByTwo(c) ==
    LET b == frame[c].bot
        old == chat_history[b]
        new == chat_history'[b]
    IN  /\ Len(new) = Len(old) + 2
        /\ SubSeq(new, 1, Len(old)) = old
        /\ new[Len(old) + 1] = HumanMessage(frame[c].query)
        /\ new[Len(old) + 2].role = "assistant"
        /\ new[Len(old) + 2].content \in Answers

\* C1: a __call__ that returns has grown the bot's chat_history by exactly
\* two entries, the human query and then the assistant's answer, and no
\* message of a transient context block is in any chat_history, ever.
C1_HistoryGrowsByQueryAndAnswer ==
    /\ []NoContextInHistory
    /\ [][\A c \in Contexts : Returns(c) => GrowsByTwo(c)]_vars

\* C1 witness: a call that retrieved two chunks has returned.
C1_Witness ==
    /\ last["cA"] = Outcome("answer", "b1", "ok", 1, 1)
    /\ Len(chat_history["b1"]) = 4
    /\ \E q \in DOMAIN source_nodes["b1"] : Len(source_nodes["b1"][q]) = 2

\* C3: chat_history and source_nodes of a bot change only when the bot is
\* constructed and when a __call__ on it returns: a call that fails at the
\* index, fails at the chat model or is aborted leaves both as they were.
C3_FailedCallLeavesStateAlone ==
    [][\A b \in Bots :
          (chat_history'[b] # chat_history[b] \/ source_nodes'[b] # source_nodes[b])
              => \/ b \notin exists
                 \/ \E c \in Contexts : Returns(c) /\ frame[c].bot = b]_vars

\* C3 witness: after one answered call, a second call was aborted while the
\* answer streamed; the history still holds the first exchange only.
C3_Witness ==
    /\ last["cA"] = Outcome("answer", "b1", "Aborted", 1, 1)
    /\ exc["cA"] = "Aborted"
    /\ Len(chat_history["b1"]) = 4

\* C5 as claimed: a __call__ on a bot constructed with a saved_index_path
\* does not end in the ValueError of a missing index.
C5_SavedIndexAnswers ==
    \A c \in Contexts :
        (last[c].op = "answer" /\ saved_index_path[last[c].target] # None)
            => last[c].status # "ValueError"

\* C6 as claimed: insert on a bot constructed with neither documents nor a
\* saved index succeeds and leaves the bot with an index.
C6_InsertEstablishesIndex ==
    \A c \in Contexts :
        (/\ last[c].op = "insert"
         /\ doc_paths[last[c].target] = NoneList
         /\ saved_index_path[last[c].target] = None)
            => last[c].status = "ok" /\ index[last[c].target] # NoneList

\* C9 as claimed: when a __call__ with query q that retrieved chunks has
\* ended, source_nodes[q] holds the chunks that call retrieved.
C9_LookupReflectsLastCall ==
    [][\A c \in Contexts :
          (pc[c] = "chat" /\ pc'[c] = "idle")
              => LET b == frame[c].bot
                 IN  /\ frame[c].query \in DOMAIN source_nodes'[b]
                     /\ source_nodes'[b][frame[c].query] = frame[c].nodes]_vars

\* C9, amended: a __call__ with query q that returns sets source_nodes[q] to
\* the chunks it retrieved and leaves the other queries' entries alone; no
\* other step changes source_nodes.  A lookup gives the chunks of the most
\* recent call with q that returned.
C9_LookupReflectsLastReturnedCall ==
    [][\A b \in Bots :
          /\ \A c \in Contexts :
                (Returns(c) /\ frame[c].bot = b)
                    => source_nodes'[b] =
                           [q \in DOMAIN source_nodes[b] \cup {frame[c].query} |->
                               IF q = frame[c].query THEN frame[c].nodes
                               ELSE source_nodes[b][q]]
          /\ (b \in exists /\ source_nodes'[b] # source_nodes[b])
                => \E c \in Contexts : Returns(c) /\ frame[c].bot = b]_vars

\* C9 witness: the same query was answered twice, with two chunks to choose
\* from, and the other query never.
C9_Witness ==
    /\ Len(chat_history["b1"]) = 6
    /\ chat_history["b1"][3] = chat_history["b1"][5]
    /\ DOMAIN source_nodes["b1"] = {chat_history["b1"][3].content}
    /\ Len(index["b1"]) = 2

WellFormedHistory(b) ==
    LET h == chat_history[b]
    IN  /\ Len(h) = 2 + 2 * returned[b]
        /\ h[1] = SystemMessage(system_message[b])
        /\ h[2] = SystemMessage(DoNotHallucinate)
        /\ \A i \in 3..Len(h) :
              h[i].role = (IF i % 2 = 1 THEN "human" ELSE "assistant")

\* C10: a bot's chat_history is the two system messages of __init__ followed
\* by alternating human and assistant entries, two per returned call, and
\* every step leaves the old history a prefix of the new one.
C10_HistoryAppendOnly ==
    /\ [](\A b \in exists : WellFormedHistory(b))
    /\ [][\A b \in exists : IsPrefix(chat_history[b], chat_history'[b])]_vars

\* C10 witness: two calls have returned.
C10_Witness ==
    /\ returned["b1"] = 2
    /\ Len(chat_history["b1"]) = 6
    /\ chat_history["b1"][3] # chat_history["b1"][5]

\* The step in which context c begins a __call__ on bot b: it either ends at
\* once in an exception or goes on to wait for the chat model.
Begins(c, b) ==
    /\ Idle(c)
    /\ \/ pc'[c] = "chat" /\ frame'[c].bot = b
       \/ exc'[c] # None /\ last'[c].op = "answer" /\ last'[c].target = b

\* C2: a __call__ on a bot whose index is None raises ValueError at once, with
\* no index query and no chat call made, and leaves every chat_history,
\* source_nodes and recorder as it was.
C2_NoIndexRaisesFirst ==
    [][\A c \in Contexts, b \in Bots :
          (Begins(c, b) /\ index[b] = NoneList)
              => /\ exc'[c] = "ValueError"
                 /\ pc'[c] = "idle"
                 /\ last'[c].nquery = 0 /\ last'[c].nchat = 0
                 /\ UNCHANGED <<chat_history, source_nodes, prompts_and_responses>>]_vars

\* C2 witness: inside the scope of a recorder that holds an entry, a call on
\* a bot constructed without documents has raised ValueError.
C2_Witness ==
    /\ last["cA"] = Outcome("answer", "b2", "ValueError", 0, 0)
    /\ exc["cA"] = "ValueError"
    /\ doc_paths["b2"] = NoneList
    /\ prompt_recorder_var["cA"] = "r1"
    /\ Len(prompts_and_responses["r1"]) = 1

\* The answer a returning call has just put last in the bot's history.
FinalAnswerText(c) ==
    LET h == chat_history'[frame[c].bot] IN h[Len(h)].content

\* C4: a __call__ that returns in a context whose slot holds recorder r appends
\* exactly one entry to r, the query and the text of the answer, and touches
\* no other recorder; with the slot empty it touches none.  No other step
\* changes a recorder's entries, so a recorder whose scope has been left gets
\* no entry from the calls that follow.
C4_ActiveRecorderLogsEachAnswer ==
    [][/\ \A c \in Contexts :
             Returns(c) =>
                 prompts_and_responses' =
                     IF prompt_recorder_var[c] = None
                     THEN prompts_and_responses
                     ELSE [prompts_and_responses EXCEPT
                              ![prompt_recorder_var[c]] =
                                  Append(@, [prompt |-> frame[c].query,
                                             response |-> FinalAnswerText(c)])]
       /\ \A r \in Recorders :
             prompts_and_responses'[r] # prompts_and_responses[r]
                 => \E c \in Contexts : Returns(c) /\ prompt_recorder_var[c] = r]_vars

\* C4 witness: in r1's scope one bot answered, one entry; the scope was left
\* and the other bot answered, leaving r1 at its one entry.
C4_Witness ==
    /\ scopes["cA"] = <<>>
    /\ prompt_recorder_var["cA"] = None
    /\ last["cA"] = Outcome("answer", "b1", "ok", 1, 1)
    /\ returned["b1"] = 1 /\ returned["b2"] = 1
    /\ Len(prompts_and_responses["r1"]) = 1
    /\ prompts_and_responses["r2"] = <<>>

\* C7: with no `with` block open the slot is empty; entering a block puts the
\* block's recorder in the slot; leaving a block empties the slot, whether or
\* not an exception is unwinding, and leaves that exception propagating.
C7_ScopeLifecycle ==
    /\ [](\A c \in Contexts : scopes[c] = <<>> => prompt_recorder_var[c] = None)
    /\ [][\A c \in Contexts :
             /\ Len(scopes'[c]) > Len(scopes[c])
                   => prompt_recorder_var'[c] = Top(scopes'[c])
             /\ Len(scopes'[c]) < Len(scopes[c])
                   => prompt_recorder_var'[c] = None /\ exc'[c] = exc[c]]_vars

\* C7 witness: a call failed inside r1's scope and the exception has left the
\* block: the slot is empty and the exception still propagates.
C7_Witness ==
    /\ last["cA"] = Outcome("exit", "r1", "UpstreamError", 0, 0)
    /\ exc["cA"] = "UpstreamError"
    /\ scopes["cA"] = <<>>
    /\ prompt_recorder_var["cA"] = None

\* C8: the slot of a context holds one recorder or none; entering a block puts
\* the entered recorder in the slot whatever it held, and nothing else puts a
\* recorder there, so the slot holds the recorder entered last or nothing; a
\* returning call adds an entry to at most one recorder, the one in the slot.
C8_LastEnteredRecorderOnly ==
    [][\A c \in Contexts :
          /\ Len(scopes'[c]) > Len(scopes[c])
                => prompt_recorder_var'[c] = Top(scopes'[c])
          /\ (prompt_recorder_var'[c] # prompt_recorder_var[c]
                /\ Len(scopes'[c]) <= Len(scopes[c]))
                => prompt_recorder_var'[c] = None
          /\ Returns(c) =>
                LET logged == {r \in Recorders :
                                  prompts_and_responses'[r] # prompts_and_responses[r]}
                IN  /\ Cardinality(logged) <= 1
                    /\ logged \subseteq {prompt_recorder_var[c]}
                    /\ prompt_recorder_var[c] # None
                          => prompt_recorder_var[c] = Top(scopes[c])]_vars

\* C8 witness: r2's block was entered inside r1's; a call returned there and
\* was logged by r2 alone.
C8_Witness ==
    /\ scopes["cA"] = <<"r1", "r2">>
    /\ prompt_recorder_var["cA"] = "r2"
    /\ last["cA"].op = "answer" /\ last["cA"].status = "ok"
    /\ Len(prompts_and_responses["r2"]) = 1
    /\ prompts_and_responses["r1"] = <<>>

\* C11: a save that succeeds writes the index to exactly one file, whose
\* name has the stem of the given name and the suffix .json; a name that
\* already has the suffix .json is used as given, and normalizing the name
\* written again gives the same name.
C11_SaveNormalizesExtension ==
    [][\A c \in Contexts, b \in Bots, path \in SaveNames :
          (\E written \in BOOLEAN : QueryBot_save(c, b, path, written)) /\ exc'[c] = None
          => \E target \in DOMAIN saved_files' :
                /\ saved_files' = DictSet(saved_files, target, index[b])
                /\ suffix(target) = "json"
                /\ stem(target) = stem(path)
                /\ suffix(path) = "json" => target = path
                /\ json_path(target) = target]_vars

\* The index of two chunks has been saved under names with another
\* extension, with two extensions and with a leading dot only.
C11_Witness ==
    /\ last["cA"] = Outcome("save", "b1", "ok", 0, 0)
    /\ DOMAIN saved_files = {<<"index", "json">>, <<"index", "tar", "json">>,
                             <<"", "json", "json">>}
    /\ saved_files[<<"index", "tar", "json">>] = <<"c3", "c3">>

\* C12: while a __call__ waits for the chat model, the sequence it passed is
\* the system message, the context marker, the retrieved chunks one message
\* each in the order index.query returned them, the query marker and the
\* human query: chunks + 4 messages, none of them an answer, the standing
\* instruction or an earlier query of chat_history.
C12_TransientSequenceShape ==
    \A c \in Contexts :
        pc[c] = "chat" =>
            LET passed == frame[c].faux
                nodes == frame[c].nodes
                n == Len(nodes)
            IN  /\ Len(passed) = n + 4
                /\ passed[1] = SystemMessage(system_message[frame[c].bot])
                /\ passed[2] = SystemMessage(ContextMarker)
                /\ \A i \in 1..n : passed[2 + i] = SystemMessage(nodes[i].text)
                /\ passed[n + 3] = SystemMessage(QueryMarker)
                /\ passed[n + 4] = HumanMessage(frame[c].query)
                /\ \A i \in 1..(n + 3) :
                      /\ passed[i].role = "system"
                      /\ passed[i] # SystemMessage(DoNotHallucinate)

\* A second call waits for the chat model with two different chunks
\* retrieved, the second chunk of the index first, after a first call with
\* the other query has been answered.
C12_Witness ==
    /\ pc["cA"] = "chat"
    /\ Len(chat_history["b1"]) = 4
    /\ chat_history["b1"][3] # HumanMessage(frame["cA"].query)
    /\ Len(frame["cA"].nodes) = 2
    /\ frame["cA"].nodes[1].text = index["b1"][2]
    /\ frame["cA"].nodes[2].text = index["b1"][1]
    /\ index["b1"][1] # index["b1"][2]

\* C13: the step in which a __call__ returns changes, of the objects, only
\* the chat_history and source_nodes of the bot called and the entries of
\* the recorder the caller's slot holds: every index, system message and
\* saved file, every other bot and every other recorder stay as they were,
\* and with an empty slot no recorder changes.
C13_AnswerFrame ==
    [][\A c \in Contexts :
          Returns(c) =>
              /\ UNCHANGED <<exists, index, system_message, doc_paths, saved_files>>
              /\ UNCHANGED <<prompt_recorder_var, scopes>>
              /\ \A b \in Bots \ {frame[c].bot} :
                    /\ chat_history'[b] = chat_history[b]
                    /\ source_nodes'[b] = source_nodes[b]
              /\ \A r \in Recorders \ {prompt_recorder_var[c]} :
                    prompts_and_responses'[r] = prompts_and_responses[r]
              /\ prompt_recorder_var[c] = None
                    => prompts_and_responses' = prompts_and_responses]_vars

\* Both bots have answered with no recorder in the slot, one of them while
\* r1's scope was open with r2's scope inside it already left.
C13_Witness ==
    /\ returned = [b \in Bots |-> 1]
    /\ last["cA"] = Outcome("answer", "b2", "ok", 1, 1)
    /\ scopes["cA"] = <<"r1">>
    /\ prompt_recorder_var["cA"] = None
    /\ \A r \in Recorders : prompts_and_responses[r] = <<>>
    /\ \A b \in Bots : index[b] = <<"c3">> /\ Len(chat_history[b]) = 4

\* C14: the slot of a context changes only in a step that opens or closes
\* a `with` block in that same context, and the entries of a recorder change
\* only when a __call__ returns in a context that has entered the recorder
\* and holds it in its slot: a call in another context adds nothing to it.
C14_SlotIsPerContext ==
    [][/\ \A c \in Contexts :
             prompt_recorder_var'[c] # prompt_recorder_var[c] => scopes'[c] # scopes[c]
       /\ \A r \in Recorders :
             prompts_and_responses'[r] # prompts_and_responses[r]
                 => \E c \in Contexts :
                        /\ Returns(c)
                        /\ prompt_recorder_var[c] = r
                        /\ r \in Range(scopes[c])
                        /\ Len(prompts_and_responses'[r]) = Len(prompts_and_responses[r]) + 1]_vars

\* Each context is inside its own recorder's scope and has had one call
\* answered there; each recorder holds the one call of its context.
C14_Witness ==
    /\ scopes = [c \in Contexts |-> IF c = "cA" THEN <<"r1">> ELSE <<"r2">>]
    /\ prompt_recorder_var = [c \in Contexts |-> IF c = "cA" THEN "r1" ELSE "r2"]
    /\ \A c \in Contexts : last[c] = Outcome("answer", "b1", "ok", 1, 1)
    /\ \A r \in Recorders : Len(prompts_and_responses[r]) = 1

C16_InsertChunkByChunk ==
    [][\A c \in Contexts, b \in Bots, file \in Docs :
          \A good \in 0..Len(split_document(file)) :
              QueryBot_insert(c, b, file, good) =>
                  LET chunks == split_document(file)
                  IN  /\ UNCHANGED <<chat_history, source_nodes>>
                      /\ \A other \in Bots \ {b} : index'[other] = index[other]
                      /\ index[b] # NoneList =>
                            /\ Len(index'[b]) = Len(index[b]) + good
                            /\ IsPrefix(index[b], index'[b])
                            /\ \A i \in 1..good : index'[b][Len(index[b]) + i] = chunks[i]
                            /\ exc'[c] = IF good = Len(chunks) THEN None ELSE "UpstreamError"
                      /\ index[b] = NoneList =>
                            index'[b] = NoneList /\ exc'[c] = "AttributeError"]_vars

\* After an answered call, the insertion of a two-chunk document failed at
\* its second chunk: the first chunk is in the index behind the old one and
\* the error is propagating.
C16_Witness ==
    /\ last["cA"] = Outcome("insert", "b1", "UpstreamError", 0, 0)
    /\ exc["cA"] = "UpstreamError"
    /\ index["b1"] = <<"c3", "c1">>
    /\ Len(chat_history["b1"]) = 4
    /\ DOMAIN source_nodes["b1"] # {}

\* C17: the step that closes a `with` block leaves the slot of its context
\* empty, whatever the slot held and whatever blocks stay open, and the slot
\* stays empty until the context opens a block again; a __call__ that
\* returns inside a block that is still open, with the slot empty, changes
\* no recorder.
C17_InnerExitClearsSlot ==
    /\ [](\A c \in Contexts : last[c].op = "exit" => prompt_recorder_var[c] = None)
    /\ [][\A c \in Contexts :
            /\ Len(scopes'[c]) < Len(scopes[c]) => prompt_recorder_var'[c] = None
            /\ Returns(c) /\ scopes[c] # <<>> /\ prompt_recorder_var[c] = None
                  => prompts_and_responses' = prompts_and_responses]_vars

\* Inside r1's block one call was recorded by r1; r2's block was opened and
\* closed inside it; the call answered after that, with r1's block still
\* open, is in no recorder.
C17_Witness ==
    /\ scopes["cA"] = <<"r1">>
    /\ prompt_recorder_var["cA"] = None
    /\ last["cA"] = Outcome("answer", "b2", "ok", 1, 1)
    /\ returned = [b \in Bots |-> 1]
    /\ Len(prompts_and_responses["r1"]) = 1
    /\ prompts_and_responses["r2"] = <<>>

\* C18: in every step the entries of every recorder are kept in place and
\* at most one entry is added behind them; opening or closing a `with`
\* block changes no entries, also when the recorder is entered again; and
\* an entry is added in the step in which a __call__ returns, for the query
\* of that call, so entries stand in the order the calls returned.
C18_EntriesAppendOnly ==
    [][\A r \in Recorders :
          LET old == prompts_and_responses[r]
              new == prompts_and_responses'[r]
          IN  /\ IsPrefix(old, new)
              /\ Len(new) <= Len(old) + 1
              /\ scopes' # scopes => new = old
              /\ new # old =>
                    \E c \in Contexts :
                        /\ Returns(c)
                        /\ new[Len(new)].prompt = frame[c].query
                        /\ new[Len(new)].response = FinalAnswerText(c)]_vars

\* r1 recorded the different answers of two bots in its first block and
\* has just been entered a second time.
C18_Witness ==
    /\ last["cA"] = Outcome("enter", "r1", "ok", 0, 0)
    /\ scopes["cA"] = <<"r1">>
    /\ Len(prompts_and_responses["r1"]) = 2
    /\ prompts_and_responses["r1"][1].response # prompts_and_responses["r1"][2].response
    /\ returned = [b \in Bots |-> 1]
====
